---- MODULE Spec2Model ----
(***************************************************************************)
(* A model of stackmapcompress.py: the byte codec (Encoder / Decoder),     *)
(* the per-function bitmap table (Stackmap), the pc-indexed stream         *)
(* (PCData), the marker scanner (parse), the liveness filter               *)
(* (filterLiveToDead), the n-ary Huffman builder (huffman) and the         *)
(* size harness (likeStackMap).                                            *)
(*                                                                         *)
(* Python integers are unbounded, so integers are modelled as TLA+         *)
(* integers; bytes are the integers 0..255; a Python list is a sequence    *)
(* (Python index i is TLA+ index i+1).  A raised Python exception is an    *)
(* err flag that, once set, makes every later operation a no-op.           *)
(***************************************************************************)
EXTENDS Integers, Sequences, FiniteSets, TLC

(***************************************************************************)
(* Bounds of the model.                                                    *)
(***************************************************************************)
MaxBitmapT == 3       \* SpecTable: small bitmaps are 0..MaxBitmapT
BigBitmap == 256      \* SpecTable: one bitmap wider than a byte (9 bits)
MaxAdds == 3          \* SpecTable: number of add calls
MaxPackedBits == 27   \* SpecTable: the Compact layout is encoded when its packed
                      \* bitfield has at most this many bits (TLC's integers end at 2^31)
MaxVarint == 130      \* SpecVarint: inputs are -MaxVarint..MaxVarint
BigVarint == 16384    \* SpecVarint: and one magnitude of three bytes
MaxPC == 1            \* SpecPCData: small pcs are 0..MaxPC
BigPC == 200          \* SpecPCData: one pc whose delta takes two bytes
MaxIdx == 2           \* SpecPCData: indices are 0..MaxIdx
MaxRecsPC == 3        \* SpecPCData: records per stream
MaxBitmapF == 3       \* SpecFilter: bitmaps are 0..MaxBitmapF
MaxRecsF == 3         \* SpecFilter: records per function
MaxFnsF == 2          \* SpecFilter: functions
MaxInsts == 5         \* SpecParse: instructions per function
MaxFnsP == 2          \* SpecParse: functions
MaxMarkerIdx == 2     \* SpecParse: index markers carry -1..MaxMarkerIdx
MaxSyms == 4          \* SpecHuffman: symbols in counts
MaxCount == 2         \* SpecHuffman: counts are 0..MaxCount
MaxAlign == 2         \* SpecHuffman: streamAlign is 1..MaxAlign
MaxFnsL == 2          \* SpecLikeStackMap: functions
MaxRecsL == 3         \* SpecLikeStackMap: records over all functions
MaxBitmapL == 2       \* SpecLikeStackMap: bitmaps are 0..MaxBitmapL
MaxGR == 1            \* SpecLikeStackMap: grPcdata is 0 (False) .. MaxGR

(***************************************************************************)
(* Integer helpers for Python's bit operators on non-negative integers.    *)
(***************************************************************************)
RECURSIVE Pow2(_)
Pow2(n) == IF n = 0 THEN 1 ELSE 2 * Pow2(n - 1)

\* a << n
Shl(a, n) == a * Pow2(n)

\* a >> n (floor division, also for negative a, as in Python)
Shr(a, n) == a \div Pow2(n)

RECURSIVE BitOr(_, _)
BitOr(a, b) ==
    IF a = 0 THEN b
    ELSE IF b = 0 THEN a
    ELSE (IF a % 2 = 1 \/ b % 2 = 1 THEN 1 ELSE 0) + 2 * BitOr(a \div 2, b \div 2)

RECURSIVE BitXor(_, _)
BitXor(a, b) ==
    IF a = 0 THEN b
    ELSE IF b = 0 THEN a
    ELSE (IF a % 2 # b % 2 THEN 1 ELSE 0) + 2 * BitXor(a \div 2, b \div 2)

\* a & ~b for non-negative a, b
RECURSIVE BitAndNot(_, _)
BitAndNot(a, b) ==
    IF a = 0 THEN 0
    ELSE (IF a % 2 = 1 /\ b % 2 = 0 THEN 1 ELSE 0) + 2 * BitAndNot(a \div 2, b \div 2)

\* (n + 7) // 8
NBytes(nbits) == (nbits + 7) \div 8

Max(a, b) == IF a >= b THEN a ELSE b

Last(s) == s[Len(s)]

(***************************************************************************)
(* Encoder: a byte buffer b; err is set once an operation has raised.      *)
(***************************************************************************)
Encoder == [b |-> <<>>, err |-> FALSE]

\* bytearray.append(i) raises ValueError unless 0 <= i < 256
Encoder_uint8(enc, i) ==
    IF enc.err THEN enc
    ELSE IF i \in 0..255 THEN [enc EXCEPT !.b = Append(@, i)]
    ELSE [enc EXCEPT !.err = TRUE]

Encoder_int32(enc, i) ==
    IF enc.err THEN enc
    ELSE [enc EXCEPT !.b = @ \o << i % 256, Shr(i, 8) % 256,
                                   Shr(i, 16) % 256, Shr(i, 24) % 256 >>]

Encoder_bitmap_short(enc, bits, nbits) ==
    IF enc.err THEN enc
    ELSE [enc EXCEPT !.b = @ \o [i \in 1..(nbits \div 8) |-> Shr(bits, (i - 1) * 8) % 256]]

Encoder_bitmap(enc, bits, nbits) ==
    IF enc.err THEN enc
    ELSE [enc EXCEPT !.b = @ \o [i \in 1..NBytes(nbits) |-> Shr(bits, (i - 1) * 8) % 256]]

(***************************************************************************)
(* Decoder: the remaining bytes b; indexing past the end raises            *)
(* IndexError (err).  Each read returns the decoder after it and the value.*)
(***************************************************************************)
Decoder(bytes) == [b |-> bytes, err |-> FALSE]

Decoder_int32(dec) ==
    IF dec.err \/ Len(dec.b) < 4
    THEN [dec |-> [dec EXCEPT !.err = TRUE], val |-> 0]
    ELSE [dec |-> [dec EXCEPT !.b = SubSeq(@, 5, Len(@))],
          val |-> dec.b[1] + Shl(dec.b[2], 8) + Shl(dec.b[3], 16) + Shl(dec.b[4], 24)]

RECURSIVE OrBytes(_, _, _)
OrBytes(b, i, nbytes) ==
    IF i >= nbytes THEN 0
    ELSE BitOr(Shl(b[i + 1], i * 8), OrBytes(b, i + 1, nbytes))

Decoder_bitmap(dec, nbits) ==
    IF dec.err \/ Len(dec.b) < NBytes(nbits)
    THEN [dec |-> [dec EXCEPT !.err = TRUE], val |-> 0]
    ELSE [dec |-> [dec EXCEPT !.b = SubSeq(@, NBytes(nbits) + 1, Len(@))],
          val |-> OrBytes(dec.b, 0, NBytes(nbits))]

(***************************************************************************)
(* Stackmap: nbit and the list bitmaps.                                    *)
(***************************************************************************)
Stackmap == [nbit |-> 0, bitmaps |-> <<>>]

\* the loop of add that counts the bits of a bitmap
RECURSIVE BitLength(_)
BitLength(b2) == IF b2 = 0 THEN 0 ELSE 1 + BitLength(Shr(b2, 1))

\* index (from 0) of the first entry equal to bitmap, or -1
RECURSIVE IndexOf(_, _, _)
IndexOf(bitmaps, bitmap, i) ==
    IF i >= Len(bitmaps) THEN -1
    ELSE IF bitmaps[i + 1] = bitmap THEN i
    ELSE IndexOf(bitmaps, bitmap, i + 1)

Stackmap_add_append(sm, bitmap) ==
    LET nb == Max(BitLength(bitmap), sm.nbit)
    IN  [sm  |-> [nbit |-> nb, bitmaps |-> Append(sm.bitmaps, bitmap)],
         ret |-> Len(sm.bitmaps)]

Stackmap_add(sm, bitmap) ==
    LET nb == Max(BitLength(bitmap), sm.nbit)
        i  == IndexOf(sm.bitmaps, bitmap, 0)
    IN  IF i >= 0
        THEN [sm |-> [sm EXCEPT !.nbit = nb], ret |-> i]
        ELSE [sm  |-> [nbit |-> nb, bitmaps |-> Append(sm.bitmaps, bitmap)],
              ret |-> Len(sm.bitmaps)]

\* the decoding constructor Stackmap(dec)
RECURSIVE ReadBitmaps(_, _, _)
ReadBitmaps(dec, nbit, n) ==
    IF n = 0 THEN [dec |-> dec, val |-> <<>>]
    ELSE LET r    == Decoder_bitmap(dec, nbit)
             rest == ReadBitmaps(r.dec, nbit, n - 1)
         IN  [dec |-> rest.dec, val |-> <<r.val>> \o rest.val]

Stackmap_init(dec) ==
    LET n  == Decoder_int32(dec)
        nb == Decoder_int32(n.dec)
        bs == ReadBitmaps(nb.dec, nb.val, n.val)
    IN  IF bs.dec.err
        THEN [err |-> TRUE, nbit |-> 0, bitmaps |-> <<>>]
        ELSE [err |-> FALSE, nbit |-> nb.val, bitmaps |-> bs.val]

RECURSIVE Combine(_, _, _)
Combine(bitmaps, nbit, i) ==
    IF i >= Len(bitmaps) THEN 0
    ELSE BitOr(Shl(bitmaps[i + 1], i * nbit), Combine(bitmaps, nbit, i + 1))

RECURSIVE EncodeEach(_, _, _, _)
EncodeEach(enc, bitmaps, nbit, i) ==
    IF i > Len(bitmaps) THEN enc
    ELSE EncodeEach(Encoder_bitmap(enc, bitmaps[i], nbit), bitmaps, nbit, i + 1)

Stackmap_encode(sm, enc, compact) ==
    LET e1 == Encoder_int32(enc, Len(sm.bitmaps))
    IN  IF compact
        THEN Encoder_bitmap(Encoder_uint8(e1, sm.nbit),
                            Combine(sm.bitmaps, sm.nbit, 0),
                            Len(sm.bitmaps) * sm.nbit)
        ELSE EncodeEach(Encoder_int32(e1, sm.nbit), sm.bitmaps, sm.nbit, 1)

Stackmap_clone(sm) == Stackmap_init(Decoder(Stackmap_encode(sm, Encoder, FALSE).b))

(***************************************************************************)
(* Variable-length integers.                                               *)
(***************************************************************************)
RECURSIVE UvarintBytes(_)
UvarintBytes(v) ==
    IF v > 127 THEN <<(v % 128) + 128>> \o UvarintBytes(Shr(v, 7)) ELSE <<v>>

Encoder_uvarint(enc, v) ==
    IF enc.err THEN enc
    ELSE IF v < 0 THEN [enc EXCEPT !.err = TRUE]
    ELSE [enc EXCEPT !.b = @ \o UvarintBytes(v)]

\* the value svarint hands to uvarint: ux = v << 1, complemented when v < 0
Svarint_ux_nocomplement(v) == Shl(v, 1)

Svarint_ux(v) ==
    LET ux == Shl(v, 1)
    IN  IF v < 0 THEN -ux - 1 ELSE ux

Encoder_svarint(enc, v) == Encoder_uvarint(enc, Svarint_ux(v))

(***************************************************************************)
(* The readers of the two varints.  The program has no reader; these       *)
(* follow the byte codec's description: 7 value bits per byte, low group   *)
(* first, the high bit set on all but the last byte, and the zigzag        *)
(* mapping undone for the signed form.                                     *)
(***************************************************************************)
RECURSIVE ReadUvarintAt(_, _)
ReadUvarintAt(b, i) ==
    IF i > Len(b) THEN [err |-> TRUE, val |-> 0, next |-> i]
    ELSE IF b[i] >= 128
         THEN LET r == ReadUvarintAt(b, i + 1)
              IN  [err |-> r.err, val |-> (b[i] - 128) + 128 * r.val, next |-> r.next]
         ELSE [err |-> FALSE, val |-> b[i], next |-> i + 1]

UnZigZag(ux) == IF ux % 2 = 0 THEN ux \div 2 ELSE -((ux + 1) \div 2)

ReadSvarintAt(b, i) ==
    LET r == ReadUvarintAt(b, i)
    IN  [err |-> r.err, val |-> UnZigZag(r.val), next |-> r.next]

(***************************************************************************)
(* PCData: pcdata is the list of (pc, index) records.                      *)
(***************************************************************************)
RECURSIVE PCData_encode_loop(_, _, _, _)
PCData_encode_loop(pcdata, enc, last, i) ==
    IF i > Len(pcdata) THEN enc
    ELSE LET e  == pcdata[i]
             e1 == Encoder_uvarint(enc, e[1] - last[1])
             e2 == Encoder_svarint(e1, e[2] - last[2])
         IN  PCData_encode_loop(pcdata, e2, e, i + 1)

PCData_encode(pcdata, enc) ==
    Encoder_uint8(PCData_encode_loop(pcdata, enc, <<0, 0>>, 1), 0)

\* The reader of a pc-indexed stream (not in the program): at each record
\* boundary a zero byte is the terminator; otherwise the two deltas are read
\* and added to the previous record.
RECURSIVE PCData_decode_loop(_, _, _, _)
PCData_decode_loop(b, i, last, acc) ==
    IF i > Len(b) THEN [err |-> TRUE, pcdata |-> acc, next |-> i]
    ELSE IF b[i] = 0 THEN [err |-> FALSE, pcdata |-> acc, next |-> i + 1]
    ELSE LET d1 == ReadUvarintAt(b, i)
             d2 == ReadSvarintAt(b, d1.next)
             e  == <<last[1] + d1.val, last[2] + d2.val>>
         IN  IF d1.err \/ d2.err THEN [err |-> TRUE, pcdata |-> acc, next |-> i]
             ELSE PCData_decode_loop(b, d2.next, e, Append(acc, e))

PCData_decode(b) == PCData_decode_loop(b, 1, <<0, 0>>, <<>>)

(***************************************************************************)
(* filterLiveToDead: the loop over one function's regMaps.  A record is    *)
(* <<pc, bitmap>>; None is the bitmap of a sentinel record.  The sentinel  *)
(* branch appends to newRegIdx, a name that is bound nowhere: NameError.   *)
(***************************************************************************)
None == -1

RECURSIVE filterLoop_prevKept(_, _, _, _)
filterLoop_prevKept(regMaps, i, newRegMaps, prevBitmap) ==
    IF i > Len(regMaps) THEN [err |-> FALSE, regMaps |-> newRegMaps]
    ELSE LET bitmap == regMaps[i][2]
         IN  IF bitmap = None
             THEN [err |-> TRUE, regMaps |-> regMaps]
             ELSE IF BitAndNot(bitmap, prevBitmap) # 0
                  THEN filterLoop_prevKept(regMaps, i + 1,
                                           Append(newRegMaps, regMaps[i]), bitmap)
                  ELSE filterLoop_prevKept(regMaps, i + 1, newRegMaps, prevBitmap)

RECURSIVE filterLoop(_, _, _, _)
filterLoop(regMaps, i, newRegMaps, prevBitmap) ==
    IF i > Len(regMaps) THEN [err |-> FALSE, regMaps |-> newRegMaps]
    ELSE LET bitmap == regMaps[i][2]
         IN  IF bitmap = None
             THEN [err |-> TRUE, regMaps |-> regMaps]
             ELSE filterLoop(regMaps, i + 1,
                             IF BitAndNot(bitmap, prevBitmap) # 0
                             THEN Append(newRegMaps, regMaps[i])
                             ELSE newRegMaps,
                             bitmap)

\* the body of "for fn in fns": the new fn.regMaps, or err and fn.regMaps
\* as it was when the sentinel branch raises
filterLiveToDead_fn(regMaps) == filterLoop(regMaps, 1, <<>>, 0)

(***************************************************************************)
(* parse: the scan of one function's instructions.  objs maps a symbol to  *)
(* its data bytes; regMap is None until a table-reference marker           *)
(* (FUNCDATA) is seen; an index marker (PCDATA) appends a record.          *)
(***************************************************************************)
RECURSIVE StackmapOf(_, _, _)
StackmapOf(bitmaps, i, sm) ==
    IF i > Len(bitmaps) THEN sm
    ELSE StackmapOf(bitmaps, i + 1, Stackmap_add(sm, bitmaps[i]).sm)

ObjSyms == {"gclocals_a", "gclocals_b"}

\* the data of the two table objects, in the encoding Stackmap(dec) reads
objs(sym) ==
    IF sym = "gclocals_a"
    THEN Stackmap_encode(StackmapOf(<<1, 2>>, 1, Stackmap), Encoder, FALSE).b
    ELSE Stackmap_encode(StackmapOf(<<3, 0, 2>>, 1, Stackmap), Encoder, FALSE).b

\* list[idx] in Python: a negative idx counts from the end, IndexError outside
PyIndex(list, idx) ==
    IF idx >= 0 /\ idx < Len(list) THEN [err |-> FALSE, val |-> list[idx + 1]]
    ELSE IF idx < 0 /\ -idx <= Len(list) THEN [err |-> FALSE, val |-> list[Len(list) + idx + 1]]
    ELSE [err |-> TRUE, val |-> 0]

RegMapNone == [isNone |-> TRUE, nbit |-> 0, bitmaps |-> <<>>]

\* the state of the scan at the start of a function
parse_start == [regMap |-> RegMapNone, regMaps |-> <<>>, err |-> "none"]

parse_FUNCDATA_keepfirst(st, sym) ==
    IF ~st.regMap.isNone THEN st
    ELSE LET sm == Stackmap_init(Decoder(objs(sym)))
         IN  [st EXCEPT !.regMap = [isNone |-> FALSE, nbit |-> sm.nbit, bitmaps |-> sm.bitmaps]]

parse_FUNCDATA(st, sym) ==
    LET sm == Stackmap_init(Decoder(objs(sym)))
    IN  IF sm.err THEN [st EXCEPT !.err = "IndexError"]
        ELSE [st EXCEPT !.regMap = [isNone |-> FALSE, nbit |-> sm.nbit, bitmaps |-> sm.bitmaps]]

parse_PCDATA(st, pc, idx) ==
    IF st.regMap.isNone THEN [st EXCEPT !.err = "AttributeError"]
    ELSE LET r == PyIndex(st.regMap.bitmaps, idx)
         IN  IF r.err THEN [st EXCEPT !.err = "IndexError"]
             ELSE [st EXCEPT !.regMaps = Append(@, <<pc, r.val>>)]

(***************************************************************************)
(* collections.Counter, as the list of its items in insertion order.       *)
(***************************************************************************)
RECURSIVE CounterFind(_, _, _)
CounterFind(c, key, i) ==
    IF i > Len(c) THEN 0
    ELSE IF c[i].val = key THEN i
    ELSE CounterFind(c, key, i + 1)

CounterAdd(c, key) ==
    LET i == CounterFind(c, key, 1)
    IN  IF i = 0 THEN Append(c, [val |-> key, count |-> 1])
        ELSE [c EXCEPT ![i].count = @ + 1]

\* list.sort / sorted with reverse=True on the count: descending, and
\* entries of equal count keep their order
RECURSIVE InsertDesc(_, _, _)
InsertDesc(s, x, j) ==
    IF j > Len(s) THEN Append(s, x)
    ELSE IF s[j].count < x.count
         THEN SubSeq(s, 1, j - 1) \o <<x>> \o SubSeq(s, j, Len(s))
         ELSE InsertDesc(s, x, j + 1)

RECURSIVE SortDesc(_, _, _)
SortDesc(s, i, acc) ==
    IF i > Len(s) THEN acc
    ELSE SortDesc(s, i + 1, InsertDesc(acc, s[i], 1))

(***************************************************************************)
(* huffman: code is the work list of (count, node); a node is a symbol     *)
(* (isList FALSE) or the list of its children (isList TRUE).               *)
(***************************************************************************)
HuffLeaf(val) == [isList |-> FALSE, val |-> val, kids |-> <<>>]
HuffList(kids) == [isList |-> TRUE, val |-> 0, kids |-> kids]

RECURSIVE SumCounts(_, _)
SumCounts(s, i) == IF i > Len(s) THEN 0 ELSE s[i].count + SumCounts(s, i + 1)

\* code = [(count, val) for val, count in counts.items()]
huffman_init(counts) ==
    [i \in 1..Len(counts) |-> [count |-> counts[i].count, node |-> HuffLeaf(counts[i].val)]]

\* one iteration of "while len(code) > 1"
huffman_step(code, radix) ==
    LET s        == SortDesc(code, 1, <<>>)
        children == IF Len(s) < radix THEN s ELSE SubSeq(s, Len(s) - radix + 1, Len(s))
        rest     == IF Len(s) < radix THEN <<>> ELSE SubSeq(s, 1, Len(s) - radix)
    IN  Append(rest, [count |-> SumCounts(children, 1),
                      node  |-> HuffList([i \in 1..Len(children) |-> children[i].node])])

RECURSIVE huffman_loop(_, _)
huffman_loop(code, radix) ==
    IF Len(code) > 1 THEN huffman_loop(huffman_step(code, radix), radix) ELSE code

DictSet(d, k, v) == [x \in (DOMAIN d) \cup {k} |-> IF x = k THEN v ELSE d[x]]

\* the codeword mktree hands to child i
mktree_child_noindex(codeword, streamAlign, i) == Shl(codeword, streamAlign)

mktree_child(codeword, streamAlign, i) == Shl(codeword, streamAlign) + i

RECURSIVE mktree(_, _, _, _, _)
RECURSIVE mktree_children(_, _, _, _, _, _)
mktree(node, codeword, bits, streamAlign, tree) ==
    IF node.isList
    THEN mktree_children(node.kids, 0, codeword, bits, streamAlign, tree)
    ELSE DictSet(tree, node.val, <<codeword, bits>>)

mktree_children(kids, i, codeword, bits, streamAlign, tree) ==
    IF i >= Len(kids) THEN tree
    ELSE mktree_children(kids, i + 1, codeword, bits, streamAlign,
                         mktree(kids[i + 1], mktree_child(codeword, streamAlign, i),
                                bits + streamAlign, streamAlign, tree))

\* the tail of huffman: code[0] raises IndexError when counts was empty
huffman_tree(code, streamAlign) ==
    IF Len(code) = 0 THEN [err |-> TRUE, tree |-> <<>>]
    ELSE [err |-> FALSE, tree |-> mktree(code[1].node, 0, 0, streamAlign, <<>>)]

huffman(counts, streamAlign) ==
    huffman_tree(huffman_loop(huffman_init(counts), Pow2(streamAlign)), streamAlign)

(***************************************************************************)
(* iterDeltas / countDeltas over the functions' regMaps.                   *)
(***************************************************************************)
RECURSIVE iterDeltas(_, _, _, _)
iterDeltas(regMaps, i, prevPC, prevBitmap) ==
    IF i > Len(regMaps) THEN <<>>
    ELSE LET pc     == regMaps[i][1]
             bitmap == regMaps[i][2]
         IN  IF bitmap = None
             THEN <<<<pc - prevPC, None>>>> \o iterDeltas(regMaps, i + 1, pc, 0)
             ELSE <<<<pc - prevPC, BitXor(bitmap, prevBitmap)>>>>
                      \o iterDeltas(regMaps, i + 1, pc, bitmap)

RECURSIVE CountAll(_, _, _, _)
CountAll(c, pairs, field, i) ==
    IF i > Len(pairs) THEN c
    ELSE CountAll(CounterAdd(c, pairs[i][field]), pairs, field, i + 1)

RECURSIVE countDeltas(_, _, _)
countDeltas(fns, i, acc) ==
    IF i > Len(fns) THEN acc
    ELSE LET ds == iterDeltas(fns[i], 1, 0, 0)
         IN  countDeltas(fns, i + 1,
                         [pcDeltas |-> CountAll(acc.pcDeltas, ds, 1, 1),
                          deltas   |-> CountAll(acc.deltas, ds, 2, 1)])

(***************************************************************************)
(* Stackmap.sort and the size estimators of PCData.                        *)
(***************************************************************************)
\* the pairs (b, i) below (bitmaps[k], k) in the order sorted() gives tuples
RankOf(bitmaps, k) ==
    Cardinality({j \in 1..Len(bitmaps) :
                    \/ bitmaps[j] < bitmaps[k]
                    \/ (bitmaps[j] = bitmaps[k] /\ j < k)})

\* s = sorted((b, i) ...): s[r] is the pair of rank r - 1, as <<b, i>> with i from 0
SortedPairs(bitmaps) ==
    [r \in 1..Len(bitmaps) |->
        LET k == CHOOSE k \in 1..Len(bitmaps) : RankOf(bitmaps, k) = r - 1
        IN  <<bitmaps[k], k - 1>>]

Stackmap_sort(sm) ==
    LET s == SortedPairs(sm.bitmaps)
    IN  [sm  |-> [sm EXCEPT !.bitmaps = [r \in 1..Len(s) |-> s[r][1]]],
         ret |-> [r \in 1..Len(s) |-> s[r][2]]]

grSize(val, n) == 1 + Shr(val, n) + n

RECURSIVE huffBits(_, _, _, _, _)
huffBits(pcdata, pcHuff, valHuff, i, lastPC) ==
    IF i > Len(pcdata) THEN 0
    ELSE pcHuff[pcdata[i][1] - lastPC][2] + valHuff[pcdata[i][2]][2]
           + huffBits(pcdata, pcHuff, valHuff, i + 1, pcdata[i][1])

PCData_huffSize(pcdata, pcHuff, valHuff) ==
    (huffBits(pcdata, pcHuff, valHuff, 1, 0) + 7) \div 8

RECURSIVE grBits(_, _, _, _, _)
grBits(pcdata, pcHuff, n, i, lastPC) ==
    IF i > Len(pcdata) THEN 0
    ELSE pcHuff[pcdata[i][1] - lastPC][2] + grSize(pcdata[i][2] + 1, n)
           + grBits(pcdata, pcHuff, n, i + 1, pcdata[i][1])

PCData_grSize(pcdata, pcHuff, n) == (grBits(pcdata, pcHuff, n, 1, 0) + 7) \div 8

(***************************************************************************)
(* likeStackMap: the body of "for fn in fns", and the pcdata accounting    *)
(* after the loop.                                                         *)
(***************************************************************************)
RECURSIVE CountBitmaps(_, _, _)
CountBitmaps(regMaps, i, c) ==
    IF i > Len(regMaps) THEN c
    ELSE CountBitmaps(regMaps, i + 1, CounterAdd(c, regMaps[i][2]))

RECURSIVE AddAll(_, _, _)
AddAll(items, i, sm) ==
    IF i > Len(items) THEN sm
    ELSE AddAll(items, i + 1, Stackmap_add(sm, items[i].val).sm)

RECURSIVE likeStackMap_index(_, _, _, _)
likeStackMap_index(regMaps, i, sm, pcdata) ==
    IF i > Len(regMaps) THEN [regMap |-> sm, pcdata |-> pcdata]
    ELSE LET r == Stackmap_add(sm, regMaps[i][2])
         IN  likeStackMap_index(regMaps, i + 1, r.sm,
                                Append(pcdata, <<regMaps[i][1], r.ret>>))

\* pcdata and regMap of one function, up to pcdatas.append(pcdata)
likeStackMap_table(regMaps, sortBitmaps) ==
    LET pre == IF sortBitmaps = "freq"
               THEN AddAll(SortDesc(CountBitmaps(regMaps, 1, <<>>), 1, <<>>), 1, Stackmap)
               ELSE Stackmap
        t   == likeStackMap_index(regMaps, 1, pre, <<>>)
    IN  IF sortBitmaps = "value"
        THEN LET r == Stackmap_sort(t.regMap)
             IN  [regMap |-> r.sm,
                  pcdata |-> [k \in 1..Len(t.pcdata) |->
                                 <<t.pcdata[k][1], r.ret[t.pcdata[k][2] + 1]>>]]
        ELSE t

\* "if not dedup or regMap not in regMapSet"
likeStackMap_store_always(dedup, regMap, regMapSet) == TRUE

likeStackMap_store(dedup, regMap, regMapSet) == ~dedup \/ regMap \notin regMapSet

likeStackMap_start == [regMapSet |-> {}, regMaps |-> <<>>, pcdatas |-> <<>>, extra |-> 0]

likeStackMap_fn(st, fnRegMaps, padToByte, dedup, sortBitmaps) ==
    LET t      == likeStackMap_table(fnRegMaps, sortBitmaps)
        regMap == Stackmap_encode(t.regMap, Encoder, ~padToByte).b
        store  == likeStackMap_store(dedup, regMap, st.regMapSet)
    IN  [regMapSet |-> IF store THEN st.regMapSet \cup {regMap} ELSE st.regMapSet,
         regMaps   |-> IF store THEN st.regMaps \o regMap ELSE st.regMaps,
         pcdatas   |-> Append(st.pcdatas, t.pcdata),
         extra     |-> st.extra + 8 + 4]

RECURSIVE CountIdx(_, _, _)
CountIdx(pcdatas, i, c) ==
    IF i > Len(pcdatas) THEN c
    ELSE CountIdx(pcdatas, i + 1, CountAll(c, pcdatas[i], 2, 1))

RECURSIVE SumSizes(_, _, _, _, _, _)
SumSizes(pcdatas, i, pcHuff, pcdataHuff, huffmanPcdata, grPcdata) ==
    IF i > Len(pcdatas) THEN 0
    ELSE (IF huffmanPcdata THEN PCData_huffSize(pcdatas[i], pcHuff, pcdataHuff)
          ELSE IF grPcdata # 0 THEN PCData_grSize(pcdatas[i], pcHuff, grPcdata)
          ELSE 0)
         + SumSizes(pcdatas, i + 1, pcHuff, pcdataHuff, huffmanPcdata, grPcdata)

RECURSIVE EncodeAll(_, _, _)
EncodeAll(pcdatas, i, enc) ==
    IF i > Len(pcdatas) THEN enc
    ELSE EncodeAll(pcdatas, i + 1, PCData_encode(pcdatas[i], enc))

\* "Encode pcdata." to the return; grPcdata 0 stands for its default False
likeStackMap_report(st, fns, huffmanPcdata, grPcdata) ==
    IF huffmanPcdata \/ grPcdata # 0
    THEN LET pcHuff     == huffman(countDeltas(fns, 1, [pcDeltas |-> <<>>, deltas |-> <<>>]).pcDeltas, 1)
             pcdataHuff == huffman(CountIdx(st.pcdatas, 1, <<>>), 1)
         IN  IF pcHuff.err \/ pcdataHuff.err
             THEN [err |-> TRUE, gclocals |-> 0, pcdata |-> 0, extra |-> 0]
             ELSE [err |-> FALSE, gclocals |-> Len(st.regMaps),
                   pcdata |-> SumSizes(st.pcdatas, 1, pcHuff.tree, pcdataHuff.tree,
                                       huffmanPcdata, grPcdata),
                   extra |-> st.extra]
    ELSE LET pcdataEnc == EncodeAll(st.pcdatas, 1, Encoder)
         IN  IF pcdataEnc.err
             THEN [err |-> TRUE, gclocals |-> 0, pcdata |-> 0, extra |-> 0]
             ELSE [err |-> FALSE, gclocals |-> Len(st.regMaps),
                   pcdata |-> Len(pcdataEnc.b), extra |-> st.extra]

(***************************************************************************)
(* State.  Each specification below runs one part of the program; the      *)
(* variables of the other parts stay at their idle values.                 *)
(***************************************************************************)
VARIABLES
    tSm,        \* SpecTable: the Stackmap
    tAdded,     \* every bitmap passed to add, in call order
    tRet,       \* what the last add returned (-1 before the first)
    tCompact,   \* the layout of the last encode
    tEnc,       \* the Encoder the table was encoded into
    tDec,       \* the Stackmap decoded from tEnc.b
    tPc,        \* "build", "encoded" or "decoded"
    vIn,        \* SpecVarint: the integer to write
    vOp,        \* "none", "uvarint" or "svarint": the call made
    vEnc,       \* the Encoder written to
    pcIn,       \* SpecPCData: PCData.pcdata
    pcEnc,      \* the Encoder it was encoded into
    pcDec,      \* what the reader made of pcEnc.b
    pcPc,       \* "new", "encoded" or "decoded"
    fIn,        \* SpecFilter: fn.regMaps of the last function, before
    fOut,       \* fn.regMaps of the last function, after
    fErr,       \* filterLiveToDead raised
    fN,         \* number of functions visited
    psInsts,    \* SpecParse: the instructions of the function scanned so far
    psSt,       \* regMap, obj.regMaps and the exception raised, if any
    psFn,       \* number of the function being scanned
    hCounts,    \* SpecHuffman: counts
    hAlign,     \* streamAlign
    hCode,      \* code
    hTree,      \* the result: err, or the dict tree
    hPc,        \* "start", "loop" or "done"
    lFns,       \* SpecLikeStackMap: regMaps of the functions visited
    lOpts,      \* padToByte, dedup, sortBitmaps
    lSt,        \* regMapSet, regMaps, pcdatas, extra
    lTable,     \* regMap of the last function, before it is encoded
    lReport,    \* the returned dict
    lPc         \* "loop" or "done"

varsT == <<tSm, tAdded, tRet, tCompact, tEnc, tDec, tPc>>
varsV == <<vIn, vOp, vEnc>>
varsPC == <<pcIn, pcEnc, pcDec, pcPc>>
varsF == <<fIn, fOut, fErr, fN>>
varsPS == <<psInsts, psSt, psFn>>
varsH == <<hCounts, hAlign, hCode, hTree, hPc>>
varsL == <<lFns, lOpts, lSt, lTable, lReport, lPc>>
vars == <<varsT, varsV, varsPC, varsF, varsPS, varsH, varsL>>

NoStackmap == [err |-> FALSE, nbit |-> 0, bitmaps |-> <<>>]
NoPCData == [err |-> FALSE, pcdata |-> <<>>, next |-> 0]
NoTree == [err |-> FALSE, tree |-> <<>>]
NoReport == [err |-> FALSE, gclocals |-> 0, pcdata |-> 0, extra |-> 0]

IdleT ==
    /\ tSm = Stackmap /\ tAdded = <<>> /\ tRet = -1 /\ tCompact = FALSE
    /\ tEnc = Encoder /\ tDec = NoStackmap /\ tPc = "build"
IdleV == vIn = 0 /\ vOp = "none" /\ vEnc = Encoder
IdlePC == pcIn = <<>> /\ pcEnc = Encoder /\ pcDec = NoPCData /\ pcPc = "new"
IdleF == fIn = <<>> /\ fOut = <<>> /\ fErr = FALSE /\ fN = 0
IdlePS == psInsts = <<>> /\ psSt = parse_start /\ psFn = 1
IdleH == hCounts = <<>> /\ hAlign = 1 /\ hCode = <<>> /\ hTree = NoTree /\ hPc = "start"
IdleL ==
    /\ lFns = <<>>
    /\ lOpts = [padToByte |-> TRUE, dedup |-> TRUE, sortBitmaps |-> "None"]
    /\ lSt = likeStackMap_start /\ lTable = Stackmap /\ lReport = NoReport /\ lPc = "loop"

(***************************************************************************)
(* SpecTable: a table is built by add calls, encoded in one of the two     *)
(* layouts, and the bytes are handed to the decoding constructor.          *)
(***************************************************************************)
TableBitmaps == (0..MaxBitmapT) \cup {BigBitmap}

InitT == IdleT /\ IdleV /\ IdlePC /\ IdleF /\ IdlePS /\ IdleH /\ IdleL

TAdd ==
    /\ tPc = "build"
    /\ Len(tAdded) < MaxAdds
    /\ \E bitmap \in TableBitmaps :
          LET r == Stackmap_add(tSm, bitmap)
          IN  /\ tSm' = r.sm
              /\ tRet' = r.ret
              /\ tAdded' = Append(tAdded, bitmap)
    /\ UNCHANGED <<tCompact, tEnc, tDec, tPc>>
    /\ UNCHANGED <<varsV, varsPC, varsF, varsPS, varsH, varsL>>

TEncode ==
    /\ tPc = "build"
    /\ \E compact \in BOOLEAN :
          /\ compact => Len(tSm.bitmaps) * tSm.nbit <= MaxPackedBits
          /\ tCompact' = compact
          /\ tEnc' = Stackmap_encode(tSm, Encoder, compact)
    /\ tPc' = "encoded"
    /\ UNCHANGED <<tSm, tAdded, tRet, tDec>>
    /\ UNCHANGED <<varsV, varsPC, varsF, varsPS, varsH, varsL>>

TDecode ==
    /\ tPc = "encoded"
    /\ ~tEnc.err
    /\ tDec' = Stackmap_init(Decoder(tEnc.b))
    /\ tPc' = "decoded"
    /\ UNCHANGED <<tSm, tAdded, tRet, tCompact, tEnc>>
    /\ UNCHANGED <<varsV, varsPC, varsF, varsPS, varsH, varsL>>

NextT == TAdd \/ TEncode \/ TDecode

SpecTable == InitT /\ [][NextT]_vars

(***************************************************************************)
(* SpecVarint: one call of uvarint or svarint on a fresh Encoder.          *)
(***************************************************************************)
VarintVals == ((-MaxVarint)..MaxVarint) \cup {BigVarint, -BigVarint}

InitV ==
    /\ vIn \in VarintVals /\ vOp = "none" /\ vEnc = Encoder
    /\ IdleT /\ IdlePC /\ IdleF /\ IdlePS /\ IdleH /\ IdleL

VUvarint ==
    /\ vOp = "none"
    /\ vEnc' = Encoder_uvarint(vEnc, vIn)
    /\ vOp' = "uvarint"
    /\ UNCHANGED vIn
    /\ UNCHANGED <<varsT, varsPC, varsF, varsPS, varsH, varsL>>

VSvarint ==
    /\ vOp = "none"
    /\ vEnc' = Encoder_svarint(vEnc, vIn)
    /\ vOp' = "svarint"
    /\ UNCHANGED vIn
    /\ UNCHANGED <<varsT, varsPC, varsF, varsPS, varsH, varsL>>

NextV == VUvarint \/ VSvarint

SpecVarint == InitV /\ [][NextV]_vars

(***************************************************************************)
(* SpecPCData: a stream of records with non-decreasing pc is encoded, and  *)
(* the bytes are read back.                                                *)
(***************************************************************************)
PCVals == (0..MaxPC) \cup {BigPC}

PCStreams ==
    UNION {{s \in [1..n -> PCVals \X (0..MaxIdx)] :
               \A k \in 1..(n - 1) : s[k][1] <= s[k + 1][1]} : n \in 0..MaxRecsPC}

InitPC ==
    /\ pcIn \in PCStreams /\ pcEnc = Encoder /\ pcDec = NoPCData /\ pcPc = "new"
    /\ IdleT /\ IdleV /\ IdleF /\ IdlePS /\ IdleH /\ IdleL

PCEncode ==
    /\ pcPc = "new"
    /\ pcEnc' = PCData_encode(pcIn, Encoder)
    /\ pcPc' = "encoded"
    /\ UNCHANGED <<pcIn, pcDec>>
    /\ UNCHANGED <<varsT, varsV, varsF, varsPS, varsH, varsL>>

PCDecode ==
    /\ pcPc = "encoded"
    /\ ~pcEnc.err
    /\ pcDec' = PCData_decode(pcEnc.b)
    /\ pcPc' = "decoded"
    /\ UNCHANGED <<pcIn, pcEnc>>
    /\ UNCHANGED <<varsT, varsV, varsF, varsPS, varsH, varsL>>

NextPC == PCEncode \/ PCDecode

SpecPCData == InitPC /\ [][NextPC]_vars

(***************************************************************************)
(* SpecFilter: filterLiveToDead visits the functions one after another.    *)
(***************************************************************************)
\* the k-th record of a function is at pc 4 * (k - 1)
FilterStreams ==
    UNION {{[k \in 1..n |-> <<4 * (k - 1), bm[k]>>] :
               bm \in [1..n -> (0..MaxBitmapF) \cup {None}]} : n \in 0..MaxRecsF}

InitF == IdleT /\ IdleV /\ IdlePC /\ IdleF /\ IdlePS /\ IdleH /\ IdleL

FFilter ==
    /\ ~fErr
    /\ fN < MaxFnsF
    /\ \E regMaps \in FilterStreams :
          LET r == filterLiveToDead_fn(regMaps)
          IN  /\ fIn' = regMaps
              /\ fOut' = r.regMaps
              /\ fErr' = r.err
    /\ fN' = fN + 1
    /\ UNCHANGED <<varsT, varsV, varsPC, varsPS, varsH, varsL>>

NextF == FFilter

SpecFilter == InitF /\ [][NextF]_vars

(***************************************************************************)
(* SpecParse: the scan of the functions' instructions.  An instruction is  *)
(* a table-reference marker (FUNCDATA, naming a symbol of objs), an index  *)
(* marker (PCDATA, carrying an index) or anything else; markers take no    *)
(* space, so a marker's pc is the number of other instructions before it.  *)
(***************************************************************************)
PcOf(insts) == Cardinality({k \in 1..Len(insts) : insts[k].kind = "OTHER"})

InitPS == IdleT /\ IdleV /\ IdlePC /\ IdleF /\ IdlePS /\ IdleH /\ IdleL

PSFuncdata ==
    /\ psSt.err = "none"
    /\ Len(psInsts) < MaxInsts
    /\ \E sym \in ObjSyms :
          /\ psInsts' = Append(psInsts, [kind |-> "FUNCDATA", sym |-> sym, idx |-> 0,
                                         pc |-> PcOf(psInsts)])
          /\ psSt' = parse_FUNCDATA(psSt, sym)
    /\ UNCHANGED psFn
    /\ UNCHANGED <<varsT, varsV, varsPC, varsF, varsH, varsL>>

PSPcdata ==
    /\ psSt.err = "none"
    /\ Len(psInsts) < MaxInsts
    /\ \E idx \in (-1)..MaxMarkerIdx :
          /\ psInsts' = Append(psInsts, [kind |-> "PCDATA", sym |-> "", idx |-> idx,
                                         pc |-> PcOf(psInsts)])
          /\ psSt' = parse_PCDATA(psSt, PcOf(psInsts), idx)
    /\ UNCHANGED psFn
    /\ UNCHANGED <<varsT, varsV, varsPC, varsF, varsH, varsL>>

PSOther ==
    /\ psSt.err = "none"
    /\ Len(psInsts) < MaxInsts
    /\ psInsts' = Append(psInsts, [kind |-> "OTHER", sym |-> "", idx |-> 0,
                                   pc |-> PcOf(psInsts)])
    /\ UNCHANGED <<psSt, psFn>>
    /\ UNCHANGED <<varsT, varsV, varsPC, varsF, varsH, varsL>>

\* the next obj of "for obj in objs.values()": regMaps and regMap start afresh
PSNextFunc ==
    /\ psSt.err = "none"
    /\ psFn < MaxFnsP
    /\ psFn' = psFn + 1
    /\ psInsts' = <<>>
    /\ psSt' = parse_start
    /\ UNCHANGED <<varsT, varsV, varsPC, varsF, varsH, varsL>>

NextPS == PSFuncdata \/ PSPcdata \/ PSOther \/ PSNextFunc

SpecParse == InitPS /\ [][NextPS]_vars

(***************************************************************************)
(* SpecHuffman: one call of huffman, an iteration of its loop at a time.   *)
(***************************************************************************)
\* counts: the symbols 0..n-1, each with a count
HuffCounts ==
    UNION {{[i \in 1..n |-> [val |-> i - 1, count |-> c[i]]] :
               c \in [1..n -> 0..MaxCount]} : n \in 0..MaxSyms}

InitH ==
    /\ hCounts \in HuffCounts /\ hAlign \in 1..MaxAlign
    /\ hCode = <<>> /\ hTree = NoTree /\ hPc = "start"
    /\ IdleT /\ IdleV /\ IdlePC /\ IdleF /\ IdlePS /\ IdleL

HStart ==
    /\ hPc = "start"
    /\ hCode' = huffman_init(hCounts)
    /\ hPc' = "loop"
    /\ UNCHANGED <<hCounts, hAlign, hTree>>
    /\ UNCHANGED <<varsT, varsV, varsPC, varsF, varsPS, varsL>>

HMerge ==
    /\ hPc = "loop"
    /\ Len(hCode) > 1
    /\ hCode' = huffman_step(hCode, Pow2(hAlign))
    /\ UNCHANGED <<hCounts, hAlign, hTree, hPc>>
    /\ UNCHANGED <<varsT, varsV, varsPC, varsF, varsPS, varsL>>

HAssign ==
    /\ hPc = "loop"
    /\ Len(hCode) <= 1
    /\ hTree' = huffman_tree(hCode, hAlign)
    /\ hPc' = "done"
    /\ UNCHANGED <<hCounts, hAlign, hCode>>
    /\ UNCHANGED <<varsT, varsV, varsPC, varsF, varsPS, varsL>>

NextH == HStart \/ HMerge \/ HAssign

SpecHuffman == InitH /\ [][NextH]_vars

(***************************************************************************)
(* SpecLikeStackMap: one call of likeStackMap; the functions are visited   *)
(* one after another, then the pcdata is accounted and the dict returned.  *)
(***************************************************************************)
\* the k-th record of a function is at pc 4 * (k - 1)
LikeStreams(maxn) ==
    UNION {{[k \in 1..n |-> <<4 * (k - 1), bm[k]>>] :
               bm \in [1..n -> 0..MaxBitmapL]} : n \in 0..maxn}

RECURSIVE TotalRecs(_, _)
TotalRecs(fns, i) == IF i > Len(fns) THEN 0 ELSE Len(fns[i]) + TotalRecs(fns, i + 1)

InitL ==
    /\ lFns = <<>>
    /\ lOpts \in [padToByte : BOOLEAN, dedup : BOOLEAN, sortBitmaps : {"None", "value", "freq"}]
    /\ lSt = likeStackMap_start /\ lTable = Stackmap /\ lReport = NoReport /\ lPc = "loop"
    /\ IdleT /\ IdleV /\ IdlePC /\ IdleF /\ IdlePS /\ IdleH

LFn ==
    /\ lPc = "loop"
    /\ Len(lFns) < MaxFnsL
    /\ \E regMaps \in LikeStreams(MaxRecsL - TotalRecs(lFns, 1)) :
          /\ lFns' = Append(lFns, regMaps)
          /\ lSt' = likeStackMap_fn(lSt, regMaps, lOpts.padToByte, lOpts.dedup,
                                    lOpts.sortBitmaps)
          /\ lTable' = likeStackMap_table(regMaps, lOpts.sortBitmaps).regMap
    /\ UNCHANGED <<lOpts, lReport, lPc>>
    /\ UNCHANGED <<varsT, varsV, varsPC, varsF, varsPS, varsH>>

LReport ==
    /\ lPc = "loop"
    /\ \E huffmanPcdata \in BOOLEAN, grPcdata \in 0..MaxGR :
          lReport' = likeStackMap_report(lSt, lFns, huffmanPcdata, grPcdata)
    /\ lPc' = "done"
    /\ UNCHANGED <<lFns, lOpts, lSt, lTable>>
    /\ UNCHANGED <<varsT, varsV, varsPC, varsF, varsPS, varsH>>

NextL == LFn \/ LReport

SpecLikeStackMap == InitL /\ [][NextL]_vars

WidthOf(b) == CHOOSE n \in 0..31 : b < Pow2(n) /\ (n = 0 \/ b >= Pow2(n - 1))

\* the first position of b in the sequence s
FirstPos(s, b) == CHOOSE k \in 1..Len(s) : s[k] = b /\ \A j \in 1..(k - 1) : s[j] # b

C6_State ==
    /\ \A i, j \in 1..Len(tSm.bitmaps) : i # j => tSm.bitmaps[i] # tSm.bitmaps[j]
    /\ tAdded # <<>> =>
          LET b == Last(tAdded)
          IN  /\ tRet = Cardinality({tAdded[k] : k \in 1..(FirstPos(tAdded, b) - 1)})
              /\ tSm.bitmaps[tRet + 1] = b
    /\ \A w \in 0..31 :
          (\A k \in 1..Len(tAdded) : WidthOf(tAdded[k]) <= w) <=> tSm.nbit <= w

C6_Step ==
    /\ tSm'.nbit >= tSm.nbit
    /\ (tAdded # <<>> /\ tAdded' = Append(tAdded, Last(tAdded))) =>
          /\ tRet' = tRet
          /\ Len(tSm'.bitmaps) = Len(tSm.bitmaps)

\* C6: after any sequence of add calls no two entries are equal, the last
\* add(b) returned the index of b's first occurrence in insertion order, and
\* nbit is the maximum bit length of the bitmaps passed to add; over every
\* add call nbit does not decrease, and an add(b) that follows an add(b)
\* returns the same index and leaves the table size unchanged.
C6_AddInvariants == [](C6_State) /\ [][C6_Step]_vars

\* add(a), add(b), add(b) with a # b: the repeated add returned index 1
C6_Witness ==
    /\ Len(tAdded) = 3 /\ tAdded[1] # tAdded[2] /\ tAdded[2] = tAdded[3]
    /\ tRet = 1 /\ Len(tSm.bitmaps) = 2

(***************************************************************************)
(* Claims about the varints (SpecVarint).                                  *)
(***************************************************************************)
ZigZag(v) == IF v >= 0 THEN 2 * v ELSE -2 * v - 1

\* every byte but the last has the continuation bit, the last has not
Base128(b) ==
    /\ Len(b) >= 1
    /\ \A k \in 1..Len(b) : b[k] \in 0..255 /\ (b[k] >= 128 <=> k < Len(b))

\* C8: uvarint(v), v >= 0, writes base-128 bytes that read back as v;
\* svarint(v) hands uvarint the value zigzag(v), which is never negative,
\* so it writes the unsigned varint of zigzag(v), and reading undoes it;
\* zigzag(0) = 0, zigzag(-1) = 1, zigzag(1) = 2, zigzag(-2) = 3.
C8_VarintRoundTrip ==
    /\ (vOp = "uvarint" /\ vIn >= 0) =>
          /\ ~vEnc.err /\ Base128(vEnc.b)
          /\ ReadUvarintAt(vEnc.b, 1) = [err |-> FALSE, val |-> vIn, next |-> Len(vEnc.b) + 1]
    /\ vOp = "svarint" =>
          /\ Svarint_ux(vIn) >= 0 /\ Svarint_ux(vIn) = ZigZag(vIn)
          /\ ~vEnc.err /\ Base128(vEnc.b)
          /\ ReadUvarintAt(vEnc.b, 1) = [err |-> FALSE, val |-> ZigZag(vIn), next |-> Len(vEnc.b) + 1]
          /\ ReadSvarintAt(vEnc.b, 1) = [err |-> FALSE, val |-> vIn, next |-> Len(vEnc.b) + 1]
          /\ vIn = 0 => vEnc.b = <<0>>
          /\ vIn = -1 => vEnc.b = <<1>>
          /\ vIn = 1 => vEnc.b = <<2>>
          /\ vIn = -2 => vEnc.b = <<3>>

\* a negative integer whose zigzag value takes more than one byte
C8_Witness == vOp = "svarint" /\ vIn < 0 /\ Len(vEnc.b) >= 2 /\ ~vEnc.err

(***************************************************************************)
(* Claims about the pc-indexed stream (SpecPCData).                        *)
(***************************************************************************)
\* C2: the stream is written as uvarint(pc - prevPC), svarint(index -
\* prevIndex) per record from (0, 0), then one zero byte, and the reader
\* that stops at the terminator byte returns exactly the records written,
\* having read every byte.
C2_DecodeReconstructs ==
    pcPc = "decoded" =>
        /\ ~pcDec.err
        /\ pcDec.pcdata = pcIn
        /\ pcDec.next = Len(pcEnc.b) + 1

(***************************************************************************)
(* Claims about filterLiveToDead (SpecFilter).                             *)
(***************************************************************************)
\* bit i of the non-negative integer a
BitAt(a, i) == Shr(a, i) % 2

\* a has a bit set that b has not
NewBits(a, b) == \E i \in 0..30 : BitAt(a, i) = 1 /\ BitAt(b, i) = 0

HasSentinel(regMaps) == \E k \in 1..Len(regMaps) : regMaps[k][2] = None

\* the records of regMaps at the positions in keep, in their order
RECURSIVE Subsequence(_, _, _)
Subsequence(regMaps, keep, k) ==
    IF k > Len(regMaps) THEN <<>>
    ELSE (IF k \in keep THEN <<regMaps[k]>> ELSE <<>>) \o Subsequence(regMaps, keep, k + 1)

\* the positions whose bitmap has a bit that the record just before it in
\* the input has not (0 before the first record)
NewAgainstPrevRecord(regMaps) ==
    {k \in 1..Len(regMaps) :
        NewBits(regMaps[k][2], IF k = 1 THEN 0 ELSE regMaps[k - 1][2])}

\* the positions among 1..k whose bitmap has a bit that the bitmap of the
\* last position kept before it has not (0 when none was kept)
RECURSIVE NewAgainstPrevKept(_, _)
NewAgainstPrevKept(regMaps, k) ==
    IF k = 0 THEN {}
    ELSE LET before == NewAgainstPrevKept(regMaps, k - 1)
             prev   == IF before = {} THEN 0
                       ELSE regMaps[CHOOSE j \in before : \A i \in before : i <= j][2]
         IN  IF NewBits(regMaps[k][2], prev) THEN before \cup {k} ELSE before

\* C4, as amended: on a stream of bitmap records (no sentinel) the call
\* completes and the output is the subsequence of the records whose bitmap
\* has at least one bit set that is not set in the bitmap of the record
\* immediately before it in the input, kept or dropped (0 before the first).
C4_KeptAgainstPrevRecord ==
    (fN > 0 /\ ~HasSentinel(fIn)) =>
        /\ ~fErr
        /\ fOut = Subsequence(fIn, NewAgainstPrevRecord(fIn), 1)

\* a record is dropped and the record after it is kept
C4_Witness ==
    /\ fN > 0 /\ ~fErr /\ ~HasSentinel(fIn)
    /\ Len(fIn) = 3 /\ fOut = <<fIn[1], fIn[3]>>
    /\ ~NewBits(fIn[3][2], fIn[1][2])

\* C4 as stated: the output is the subsequence of the records whose bitmap
\* has a bit that the immediately preceding kept record has not.
C4_KeptAgainstPrevKept ==
    (fN > 0 /\ ~HasSentinel(fIn)) =>
        /\ ~fErr
        /\ fOut = Subsequence(fIn, NewAgainstPrevKept(fIn, Len(fIn)), 1)

\* C10: on a stream with sentinel records the call completes without
\* error, every sentinel record is in the output, and a record with a
\* non-zero bitmap that follows a sentinel record is kept.
C10_SentinelPreserved ==
    (fN > 0 /\ HasSentinel(fIn)) =>
        /\ ~fErr
        /\ \A k \in 1..Len(fIn) :
              fIn[k][2] = None =>
                  /\ \E j \in 1..Len(fOut) : fOut[j] = fIn[k]
                  /\ (k < Len(fIn) /\ fIn[k + 1][2] \notin {None, 0}) =>
                        \E j \in 1..Len(fOut) : fOut[j] = fIn[k + 1]

(***************************************************************************)
(* Claims about likeStackMap (SpecLikeStackMap).                           *)
(***************************************************************************)
\* C3: with sortBitmaps = "value" the table of the function just visited
\* is in ascending order and each of its rewritten records (pc, remap[idx])
\* refers to the bitmap the record had in fn.regMaps.
C3_SortRemapKeepsBitmaps ==
    (lOpts.sortBitmaps = "value" /\ lFns # <<>>) =>
        LET regMaps == Last(lFns)
            pcdata  == Last(lSt.pcdatas)
        IN  /\ \A i, j \in 1..Len(lTable.bitmaps) :
                  i < j => lTable.bitmaps[i] < lTable.bitmaps[j]
            /\ Len(pcdata) = Len(regMaps)
            /\ \A k \in 1..Len(regMaps) :
                  /\ pcdata[k][1] = regMaps[k][1]
                  /\ lTable.bitmaps[pcdata[k][2] + 1] = regMaps[k][2]

\* the encoded table of a function under the options of the call
TableBytes(regMaps) ==
    Stackmap_encode(likeStackMap_table(regMaps, lOpts.sortBitmaps).regMap,
                    Encoder, ~lOpts.padToByte).b

RECURSIVE SumLen(_)
SumLen(S) == IF S = {} THEN 0 ELSE LET x == CHOOSE x \in S : TRUE IN Len(x) + SumLen(S \ {x})

\* of the byte strings of the sequence tables, those no earlier one equals
RECURSIVE FirstTables(_, _)
FirstTables(tables, i) ==
    IF i > Len(tables) THEN <<>>
    ELSE (IF \E j \in 1..(i - 1) : tables[j] = tables[i] THEN <<>> ELSE tables[i])
         \o FirstTables(tables, i + 1)

\* C5: with dedup the table bytes are those of the functions whose encoded
\* table no earlier function had, so their length is the sum of the lengths
\* of the distinct encoded tables; without dedup it is the sum over all
\* functions; "gclocals" of the returned dict is that length.
C5_GclocalsDistinctTables ==
    LET tables   == [i \in 1..Len(lFns) |-> TableBytes(lFns[i])]
        distinct == {tables[i] : i \in 1..Len(lFns)}
        total    == IF lOpts.dedup THEN SumLen(distinct) ELSE TotalRecs(tables, 1)
    IN  /\ lOpts.dedup => lSt.regMaps = FirstTables(tables, 1)
        /\ Len(lSt.regMaps) = total
        /\ (lPc = "done" /\ ~lReport.err) => lReport.gclocals = total

\* two functions with different records and the same non-empty table,
\* under dedup: the table is counted once
C5_Witness ==
    /\ lOpts.dedup /\ lPc = "done" /\ ~lReport.err
    /\ Len(lFns) = 2 /\ lFns[1] # <<>> /\ lFns[1] # lFns[2]
    /\ TableBytes(lFns[1]) = TableBytes(lFns[2])
    /\ lReport.gclocals = Len(TableBytes(lFns[1]))

(***************************************************************************)
(* Claims about huffman (SpecHuffman).                                     *)
(***************************************************************************)
\* the codeword a, read as a string of a[2] bits, starts the codeword b
IsBitPrefix(a, b) == a[2] <= b[2] /\ Shr(b[1], b[2] - a[2]) = a[1]

\* C7: for counts of two or more symbols the returned tree gives every
\* symbol a (codeword, length), the codeword fitting in length bits, and no
\* symbol's codeword is a bit-prefix of another symbol's.
C7_PrefixFree ==
    (hPc = "done" /\ Len(hCounts) >= 2) =>
        /\ ~hTree.err
        /\ DOMAIN hTree.tree = {hCounts[i].val : i \in 1..Len(hCounts)}
        /\ \A s \in DOMAIN hTree.tree :
              /\ hTree.tree[s][2] >= hAlign
              /\ hTree.tree[s][1] \in 0..(Pow2(hTree.tree[s][2]) - 1)
        /\ \A s, t \in DOMAIN hTree.tree :
              s # t => ~IsBitPrefix(hTree.tree[s], hTree.tree[t])

\* a binary tree over four symbols with a codeword of three bits
C7_Witness ==
    /\ hPc = "done" /\ ~hTree.err /\ Len(hCounts) = 4 /\ hAlign = 1
    /\ \E s \in DOMAIN hTree.tree : hTree.tree[s][2] = 3

(***************************************************************************)
(* Claims about parse (SpecParse).                                         *)
(***************************************************************************)
IndexMarkers == {k \in 1..Len(psInsts) : psInsts[k].kind = "PCDATA"}

\* the position of the last table-reference marker before position k, or 0
LastReference(k) ==
    LET refs == {j \in 1..(k - 1) : psInsts[j].kind = "FUNCDATA"}
    IN  IF refs = {} THEN 0 ELSE CHOOSE j \in refs : \A i \in refs : i <= j

\* the table a symbol names
TableNamed(sym) == Stackmap_init(Decoder(objs(sym))).bitmaps

\* C9: the records appended so far are, in order, those of the index
\* markers scanned without an exception, each (pc, table[index]) with the
\* table named by the most recent table-reference marker before it; the
\* current table is the one the last table-reference marker names; and an
\* index marker with no table-reference marker before it raises an
\* exception that ends the scan and appends no record.
C9_IndexResolvesAgainstLastReference ==
    LET resolved == IF psSt.err = "none" THEN IndexMarkers
                    ELSE IndexMarkers \ {Len(psInsts)}
    IN  /\ Len(psSt.regMaps) = Cardinality(resolved)
        /\ \A k \in resolved :
              LET n == Cardinality({j \in resolved : j <= k})
                  t == TableNamed(psInsts[LastReference(k)].sym)
              IN  /\ LastReference(k) # 0
                  /\ psSt.regMaps[n] = <<psInsts[k].pc, PyIndex(t, psInsts[k].idx).val>>
        /\ (psSt.err = "none" /\ LastReference(Len(psInsts) + 1) # 0) =>
              /\ ~psSt.regMap.isNone
              /\ psSt.regMap.bitmaps = TableNamed(psInsts[LastReference(Len(psInsts) + 1)].sym)
        /\ (\E k \in IndexMarkers : LastReference(k) = 0) =>
              /\ psSt.err # "none"
              /\ psInsts[Len(psInsts)].kind = "PCDATA"
              /\ LastReference(Len(psInsts)) = 0
        /\ psSt.err # "none" => psInsts[Len(psInsts)].kind = "PCDATA"

\* reference, index, index, reference, index, with two different tables
C9_Witness ==
    /\ psSt.err = "none" /\ Len(psInsts) = 5 /\ Len(psSt.regMaps) = 3
    /\ psInsts[1].kind = "FUNCDATA" /\ psInsts[2].kind = "PCDATA"
    /\ psInsts[3].kind = "PCDATA" /\ psInsts[4].kind = "FUNCDATA"
    /\ psInsts[5].kind = "PCDATA" /\ psInsts[1].sym # psInsts[4].sym
    /\ psInsts[5].idx \in 0..1
    /\ psSt.regMaps[3][2] = TableNamed(psInsts[4].sym)[psInsts[5].idx + 1]
    /\ psSt.regMaps[3][2] # TableNamed(psInsts[1].sym)[psInsts[5].idx + 1]

====
